---- MODULE Spec2Model ----
(***************************************************************************)
(* A model of the MIDI router (main.go): the channel and note-range        *)
(* filters, the channel-override and note-transposition transforms, the    *)
(* per-output route decision and the dispatch callback that runMIDIRouter  *)
(* registers with midi.ListenTo.                                           *)
(*                                                                         *)
(* A MIDI message is a sequence of bytes (1-based here, 0-based in Go):    *)
(* msg[1] is the status byte, msg[2] and msg[3] the data bytes.  A Go      *)
(* pointer that may be nil is a sequence of length 0 (nil) or 1.           *)
(***************************************************************************)
EXTENDS Integers, Sequences, FiniteSets, TLC

VARIABLES
    config,     \* Config.Outputs: the sequence of OutputConfig the router runs with
    quiet,      \* the --quiet flag handed to runMIDIRouter
    listening,  \* TRUE from midi.ListenTo until stop()
    inputs,     \* the incoming messages delivered to the callback so far, as received
    buf,        \* the bytes of the latest incoming message's buffer after its callback returned
    calls,      \* every call of a sender: [n, out, msg, ok], n the index of the incoming message
    lines,      \* every report line printed: [n, kind, out, msg, transform]
    op,         \* FnSpec: the function that was applied ("init" before)
    arg,        \* FnSpec: its inputs
    res,        \* FnSpec: its result
    pc,         \* MainSpec: where main() is
    flags,      \* MainSpec: the command line, after flag.Parse
    file,       \* MainSpec: the file --config names
    typed,      \* MainSpec: what the user typed and played in the wizard
    saved,      \* MainSpec: the files saveConfig has written
    cpc,        \* CapSpec: where the goroutine that called captureNote is
    capListening, \* CapSpec: TRUE from midi.ListenTo until stop()
    noteChan,   \* CapSpec: the buffered channel of capacity 1
    timer,      \* CapSpec: the timer of time.After(30 * time.Second)
    heard,      \* CapSpec: the messages delivered to the callback, in order
    ret         \* CapSpec: what captureNote returns

vars == <<config, quiet, listening, inputs, buf, calls, lines, op, arg, res,
          pc, flags, file, typed, saved,
          cpc, capListening, noteChan, timer, heard, ret>>

routerVars == <<config, quiet, listening, inputs, buf, calls, lines>>
fnVars == <<op, arg, res>>
mainVars == <<pc, flags, file, typed, saved>>
capVars == <<cpc, capListening, noteChan, timer, heard, ret>>

---------------------------------------------------------------------------
(* Bounds of the model *)

\* how many incoming messages one run of the router handles
MaxMsgs == 2
\* how many outputs a configuration has at most
MaxOutputs == 2

---------------------------------------------------------------------------
(* Go values *)

Nil == <<>>
Ptr(v) == <<v>>
Deref(p) == p[1]

\* uint8 arithmetic wraps modulo 2^8
U8(x) == x % 256

\* b & 0x0F and b & 0xF0 on a byte
And0F(b) == b % 16
AndF0(b) == (b \div 16) * 16

---------------------------------------------------------------------------
(* gomidi Message accessors, as main.go uses them.  GetNoteOn/GetNoteOff   *)
(* decide by the status nibble alone (0x9n / 0x8n), whatever the velocity. *)

GetNoteOn(msg) == Len(msg) >= 3 /\ msg[1] \div 16 = 9
GetNoteOff(msg) == Len(msg) >= 3 /\ msg[1] \div 16 = 8
NoteChannel(msg) == And0F(msg[1])
NoteKey(msg) == msg[2]
NoteVelocity(msg) == msg[3]

---------------------------------------------------------------------------
(* Filters *)

\* mutant: compares the zero-based wire channel with the one-based setting
ChannelFilter_ShouldPass_ZeroBased(cf, msg) ==
    IF GetNoteOn(msg) \/ GetNoteOff(msg)
    THEN NoteChannel(msg) = cf.Channel
    ELSE IF Len(msg) >= 1
         THEN And0F(msg[1]) + 1 = cf.Channel
         ELSE TRUE

\* func (cf *ChannelFilter) ShouldPass(msg midi.Message) bool
ChannelFilter_ShouldPass(cf, msg) ==
    IF GetNoteOn(msg) \/ GetNoteOff(msg)
    THEN U8(NoteChannel(msg) + 1) = cf.Channel
    ELSE IF Len(msg) >= 1
         THEN And0F(msg[1]) + 1 = cf.Channel
         ELSE TRUE

\* mutant: the upper end of the range is exclusive
NoteRangeFilter_ShouldPass_Exclusive(nrf, msg) ==
    IF GetNoteOn(msg) \/ GetNoteOff(msg)
    THEN NoteKey(msg) >= nrf.MinNote /\ NoteKey(msg) < nrf.MaxNote
    ELSE TRUE

\* func (nrf *NoteRangeFilter) ShouldPass(msg midi.Message) bool
NoteRangeFilter_ShouldPass(nrf, msg) ==
    IF GetNoteOn(msg) \/ GetNoteOff(msg)
    THEN NoteKey(msg) >= nrf.MinNote /\ NoteKey(msg) <= nrf.MaxNote
    ELSE TRUE

\* mutant: a passing channel filter returns true at once, skipping the note range
shouldRouteMessage_FirstFilterDecides(msg, outputConfig) ==
    IF outputConfig.ChannelFilter # Nil
    THEN ChannelFilter_ShouldPass(Deref(outputConfig.ChannelFilter), msg)
    ELSE IF outputConfig.NoteRangeFilter # Nil
            /\ ~NoteRangeFilter_ShouldPass(Deref(outputConfig.NoteRangeFilter), msg)
         THEN FALSE
         ELSE TRUE

\* mutant: an output on which no filter is configured passes nothing
shouldRouteMessage_RequiresFilter(msg, outputConfig) ==
    IF outputConfig.ChannelFilter = Nil /\ outputConfig.NoteRangeFilter = Nil
    THEN FALSE
    ELSE IF outputConfig.ChannelFilter # Nil
            /\ ~ChannelFilter_ShouldPass(Deref(outputConfig.ChannelFilter), msg)
         THEN FALSE
         ELSE IF outputConfig.NoteRangeFilter # Nil
                 /\ ~NoteRangeFilter_ShouldPass(Deref(outputConfig.NoteRangeFilter), msg)
              THEN FALSE
              ELSE TRUE

\* func shouldRouteMessage(msg midi.Message, outputConfig *OutputConfig) bool
shouldRouteMessage(msg, outputConfig) ==
    IF outputConfig.ChannelFilter # Nil
       /\ ~ChannelFilter_ShouldPass(Deref(outputConfig.ChannelFilter), msg)
    THEN FALSE
    ELSE IF outputConfig.NoteRangeFilter # Nil
            /\ ~NoteRangeFilter_ShouldPass(Deref(outputConfig.NoteRangeFilter), msg)
         THEN FALSE
         ELSE TRUE

---------------------------------------------------------------------------
(* Transforms.  A Go slice is a reference: each transform returns          *)
(*   ret       the bytes of the returned message,                          *)
(*   arg       the bytes of the argument's buffer when the call returns,   *)
(*   alias     TRUE when the returned slice is the argument itself,        *)
(*   transform the MessageTransformation record after the call.            *)

\* &MessageTransformation{}
EmptyTransformation ==
    [OriginalChannel |-> Nil, TransformedChannel |-> Nil,
     OriginalNote |-> Nil, TransformedNote |-> Nil]

\* return msg: the argument itself, untouched
ReturnSame(msg, transform) ==
    [ret |-> msg, arg |-> msg, alias |-> TRUE, transform |-> transform]

\* newMsg := make(midi.Message, len(msg)); copy(newMsg, msg); ...; return newMsg
ReturnCopy(msg, newMsg, transform) ==
    [ret |-> newMsg, arg |-> msg, alias |-> FALSE, transform |-> transform]

\* mutant: rewrites the status byte in the caller's buffer instead of a copy
applyChannelOverride_InPlace(msg, overrideChannel, transform) ==
    IF overrideChannel = Nil
    THEN ReturnSame(msg, transform)
    ELSE IF Len(msg) >= 1 /\ msg[1] >= 128 /\ msg[1] <= 239
         THEN LET statusByte == msg[1]
                  originalChannel == U8(And0F(statusByte) + 1)
                  newStatus == AndF0(statusByte) + And0F(U8(Deref(overrideChannel) + 255))
                  newMsg == [msg EXCEPT ![1] = newStatus]
              IN [ret |-> newMsg, arg |-> newMsg, alias |-> TRUE,
                  transform |-> [transform EXCEPT
                                   !.OriginalChannel = Ptr(originalChannel),
                                   !.TransformedChannel = overrideChannel]]
         ELSE ReturnSame(msg, transform)

\* mutant: writes the one-based channel into the nibble (no "- 1")
applyChannelOverride_OneBased(msg, overrideChannel, transform) ==
    IF overrideChannel = Nil
    THEN ReturnSame(msg, transform)
    ELSE IF Len(msg) >= 1 /\ msg[1] >= 128 /\ msg[1] <= 239
         THEN LET statusByte == msg[1]
                  originalChannel == U8(And0F(statusByte) + 1)
                  newStatus == AndF0(statusByte) + And0F(Deref(overrideChannel))
              IN ReturnCopy(msg, [msg EXCEPT ![1] = newStatus],
                            [transform EXCEPT !.OriginalChannel = Ptr(originalChannel),
                                              !.TransformedChannel = overrideChannel])
         ELSE ReturnCopy(msg, msg, transform)

\* mutant: adds the override to the channel instead of setting it
applyChannelOverride_Increment(msg, overrideChannel, transform) ==
    IF overrideChannel = Nil
    THEN ReturnSame(msg, transform)
    ELSE IF Len(msg) >= 1 /\ msg[1] >= 128 /\ msg[1] <= 239
         THEN LET statusByte == msg[1]
                  originalChannel == U8(And0F(statusByte) + 1)
                  newStatus == AndF0(statusByte)
                               + And0F(U8(statusByte + Deref(overrideChannel) + 255))
              IN ReturnCopy(msg, [msg EXCEPT ![1] = newStatus],
                            [transform EXCEPT !.OriginalChannel = Ptr(originalChannel),
                                              !.TransformedChannel = overrideChannel])
         ELSE ReturnCopy(msg, msg, transform)

\* mutant: the status byte becomes the channel alone, the message type is lost
applyChannelOverride_DropsType(msg, overrideChannel, transform) ==
    IF overrideChannel = Nil
    THEN ReturnSame(msg, transform)
    ELSE IF Len(msg) >= 1 /\ msg[1] >= 128 /\ msg[1] <= 239
         THEN LET statusByte == msg[1]
                  originalChannel == U8(And0F(statusByte) + 1)
                  newStatus == And0F(U8(Deref(overrideChannel) + 255))
              IN ReturnCopy(msg, [msg EXCEPT ![1] = newStatus],
                            [transform EXCEPT !.OriginalChannel = Ptr(originalChannel),
                                              !.TransformedChannel = overrideChannel])
         ELSE ReturnCopy(msg, msg, transform)

\* func applyChannelOverride(msg, overrideChannel *uint8, transform) midi.Message
applyChannelOverride(msg, overrideChannel, transform) ==
    IF overrideChannel = Nil
    THEN ReturnSame(msg, transform)
    ELSE IF Len(msg) >= 1 /\ msg[1] >= 128 /\ msg[1] <= 239
         THEN LET statusByte == msg[1]
                  originalChannel == U8(And0F(statusByte) + 1)
                  newStatus == AndF0(statusByte) + And0F(U8(Deref(overrideChannel) + 255))
              IN ReturnCopy(msg, [msg EXCEPT ![1] = newStatus],
                            [transform EXCEPT !.OriginalChannel = Ptr(originalChannel),
                                              !.TransformedChannel = overrideChannel])
         ELSE ReturnCopy(msg, msg, transform)

\* mutant: a note that leaves 0..127 is clamped to the nearest end
TransposeNote_Clamp(msg, semitones, transform) ==
    LET key == NoteKey(msg)
        sum == key + semitones
        newNote == IF sum < 0 THEN 0 ELSE IF sum > 127 THEN 127 ELSE sum
    IN ReturnCopy(msg, [msg EXCEPT ![2] = U8(newNote)],
                  [transform EXCEPT !.OriginalNote = Ptr(key),
                                    !.TransformedNote = Ptr(U8(newNote))])

\* mutant: the sign of the offset is lost
TransposeNote_Abs(msg, semitones, transform) ==
    LET key == NoteKey(msg)
        newNote == key + (IF semitones < 0 THEN -semitones ELSE semitones)
    IN IF newNote < 0 \/ newNote > 127
       THEN ReturnSame(msg, transform)
       ELSE ReturnCopy(msg, [msg EXCEPT ![2] = U8(newNote)],
                       [transform EXCEPT !.OriginalNote = Ptr(key),
                                         !.TransformedNote = Ptr(U8(newNote))])

\* the Note On and the Note Off branch of applyNoteTransposition (identical code)
TransposeNote(msg, semitones, transform) ==
    LET key == NoteKey(msg)
        newNote == key + semitones
    IN IF newNote < 0 \/ newNote > 127
       THEN ReturnSame(msg, transform)
       ELSE ReturnCopy(msg, [msg EXCEPT ![2] = U8(newNote)],
                       [transform EXCEPT !.OriginalNote = Ptr(key),
                                         !.TransformedNote = Ptr(U8(newNote))])

\* mutant: only Note On is transposed, Note Off is passed through
applyNoteTransposition_NoteOnOnly(msg, transposeSemitones, transform) ==
    IF transposeSemitones = Nil \/ Deref(transposeSemitones) = 0
    THEN ReturnSame(msg, transform)
    ELSE IF GetNoteOn(msg)
         THEN TransposeNote(msg, Deref(transposeSemitones), transform)
         ELSE ReturnSame(msg, transform)

\* func applyNoteTransposition(msg, transposeSemitones *int8, transform) midi.Message
applyNoteTransposition(msg, transposeSemitones, transform) ==
    IF transposeSemitones = Nil \/ Deref(transposeSemitones) = 0
    THEN ReturnSame(msg, transform)
    ELSE IF GetNoteOn(msg)
         THEN TransposeNote(msg, Deref(transposeSemitones), transform)
         ELSE IF GetNoteOff(msg)
              THEN TransposeNote(msg, Deref(transposeSemitones), transform)
              ELSE ReturnSame(msg, transform)

---------------------------------------------------------------------------
(* Reporting *)

\* func extractChannelFromMessage(msg midi.Message) uint8
extractChannelFromMessage(msg) ==
    IF Len(msg) >= 1 /\ msg[1] >= 128 /\ msg[1] <= 239
    THEN U8(And0F(msg[1]) + 1)
    ELSE 0

\* func formatChannelTransformation(originalChannel, transform) string:
\* "channel: N->M" is [before |-> N, after |-> Ptr(M)], "channel: N" has after Nil
formatChannelTransformation(originalChannel, transform) ==
    IF transform.OriginalChannel # Nil /\ transform.TransformedChannel # Nil
    THEN [label |-> "channel", before |-> Deref(transform.OriginalChannel),
          after |-> Ptr(Deref(transform.TransformedChannel))]
    ELSE [label |-> "channel", before |-> originalChannel, after |-> Nil]

\* func formatNoteTransformation(originalNote, transform) string
formatNoteTransformation(originalNote, transform) ==
    IF transform.OriginalNote # Nil /\ transform.TransformedNote # Nil
    THEN [label |-> "note", before |-> Deref(transform.OriginalNote),
          after |-> Ptr(Deref(transform.TransformedNote))]
    ELSE [label |-> "note", before |-> originalNote, after |-> Nil]

\* func logSuccessfulRoute(outputName, originalMsg, transform, quiet)
logSuccessfulRoute(n, i, outputName, originalMsg, transform, q) ==
    IF q
    THEN <<>>
    ELSE <<[n |-> n, kind |-> "route", out |-> i, name |-> outputName,
            msg |-> originalMsg, transform |-> transform]>>

\* func logDroppedMessage(originalMsg, quiet)
logDroppedMessage(n, originalMsg, q) ==
    IF q
    THEN <<>>
    ELSE <<[n |-> n, kind |-> "dropped", out |-> 0, name |-> "DROPPED",
            msg |-> originalMsg, transform |-> EmptyTransformation]>>

\* mutant: log.Fatalf instead of log.Printf, the process exits
logSendError_Fatal(n, i, outputName, originalMsg) ==
    [lines |-> <<[n |-> n, kind |-> "error", out |-> i, name |-> outputName,
                  msg |-> originalMsg, transform |-> EmptyTransformation]>>,
     exit |-> TRUE]

\* log.Printf("Error sending to %s: %v", fullName, err): not subject to --quiet.
\* log.Printf prints and returns, so the process does not exit.
logSendError(n, i, outputName, originalMsg) ==
    [lines |-> <<[n |-> n, kind |-> "error", out |-> i, name |-> outputName,
                  msg |-> originalMsg, transform |-> EmptyTransformation]>>,
     exit |-> FALSE]

---------------------------------------------------------------------------
(* The dispatch callback of runMIDIRouter *)

\* mutant: anyRouted = true is set after the send whether or not it failed
routeOutput_AnyRoutedOnError(i, st, outs, fails, q, n) ==
    LET outputConfig == outs[i]
    IN IF shouldRouteMessage(st.msg, outputConfig)
       THEN LET r1 == applyChannelOverride(st.msg, outputConfig.OverrideChannel,
                                           EmptyTransformation)
                r2 == applyNoteTransposition(r1.ret, outputConfig.TransposeSemitones,
                                             r1.transform)
                msgAfter == IF r1.alias THEN r2.arg ELSE r1.arg
                sent == Append(st.calls, [n |-> n, out |-> i, msg |-> r2.ret,
                                          ok |-> i \notin fails])
            IN IF i \in fails
               THEN LET e == logSendError(n, i, outputConfig.Name, msgAfter)
                    IN [msg |-> msgAfter, anyRouted |-> TRUE, calls |-> sent,
                        lines |-> st.lines \o e.lines, exit |-> e.exit]
               ELSE [msg |-> msgAfter, anyRouted |-> TRUE, calls |-> sent,
                     lines |-> st.lines \o logSuccessfulRoute(n, i, outputConfig.Name,
                                                              msgAfter, r2.transform, q),
                     exit |-> FALSE]
       ELSE st

\* mutant: a failed send is tried a second time
routeOutput_Retry(i, st, outs, fails, q, n) ==
    LET outputConfig == outs[i]
    IN IF shouldRouteMessage(st.msg, outputConfig)
       THEN LET r1 == applyChannelOverride(st.msg, outputConfig.OverrideChannel,
                                           EmptyTransformation)
                r2 == applyNoteTransposition(r1.ret, outputConfig.TransposeSemitones,
                                             r1.transform)
                msgAfter == IF r1.alias THEN r2.arg ELSE r1.arg
                call == [n |-> n, out |-> i, msg |-> r2.ret, ok |-> i \notin fails]
            IN IF i \in fails
               THEN LET e == logSendError(n, i, outputConfig.Name, msgAfter)
                    IN [msg |-> msgAfter, anyRouted |-> st.anyRouted,
                        calls |-> st.calls \o <<call, call>>,
                        lines |-> st.lines \o e.lines, exit |-> e.exit]
               ELSE [msg |-> msgAfter, anyRouted |-> TRUE,
                     calls |-> Append(st.calls, call),
                     lines |-> st.lines \o logSuccessfulRoute(n, i, outputConfig.Name,
                                                              msgAfter, r2.transform, q),
                     exit |-> FALSE]
       ELSE st

\* the body of the loop for output i: filter, transform, send, report.
\* st.msg is the incoming message's buffer; the sender of output i returns an
\* error exactly when i \in fails; st.exit is TRUE once the process has exited.
routeOutput(i, st, outs, fails, q, n) ==
    LET outputConfig == outs[i]
    IN IF shouldRouteMessage(st.msg, outputConfig)
       THEN LET r1 == applyChannelOverride(st.msg, outputConfig.OverrideChannel,
                                           EmptyTransformation)
                r2 == applyNoteTransposition(r1.ret, outputConfig.TransposeSemitones,
                                             r1.transform)
                msgAfter == IF r1.alias THEN r2.arg ELSE r1.arg
                sent == Append(st.calls, [n |-> n, out |-> i, msg |-> r2.ret,
                                          ok |-> i \notin fails])
            IN IF i \in fails
               THEN LET e == logSendError(n, i, outputConfig.Name, msgAfter)
                    IN [msg |-> msgAfter, anyRouted |-> st.anyRouted, calls |-> sent,
                        lines |-> st.lines \o e.lines, exit |-> e.exit]
               ELSE [msg |-> msgAfter, anyRouted |-> TRUE, calls |-> sent,
                     lines |-> st.lines \o logSuccessfulRoute(n, i, outputConfig.Name,
                                                              msgAfter, r2.transform, q),
                     exit |-> FALSE]
       ELSE st

\* for i, outputConfig := range config.Outputs { ... }
RECURSIVE routeOutputs(_, _, _, _, _, _)
routeOutputs(i, st, outs, fails, q, n) ==
    IF i > Len(outs) \/ st.exit
    THEN st
    ELSE routeOutputs(i + 1, routeOutput(i, st, outs, fails, q, n), outs, fails, q, n)

\* func(msg midi.Message, timestampms int32) { ... }, the whole callback
handleMessage(msg, outs, fails, q, n) ==
    LET st == routeOutputs(1, [msg |-> msg, anyRouted |-> FALSE,
                               calls |-> <<>>, lines |-> <<>>, exit |-> FALSE],
                           outs, fails, q, n)
    IN IF st.exit
       THEN st
       ELSE [st EXCEPT !.lines = st.lines \o (IF ~st.anyRouted
                                              THEN logDroppedMessage(n, st.msg, q)
                                              ELSE <<>>)]

---------------------------------------------------------------------------
(* Inputs of the router model *)

NoteOnMsg(ch, key, vel) == <<144 + ch, key, vel>>
NoteOffMsg(ch, key, vel) == <<128 + ch, key, vel>>
ControlChangeMsg(ch, cc, val) == <<176 + ch, cc, val>>
TimingClockMsg == <<248>>

\* the messages the input port delivers in the router model
RouterMsgs ==
    { NoteOnMsg(0, 60, 80), NoteOffMsg(1, 125, 0),
      ControlChangeMsg(0, 7, 100), TimingClockMsg }

OutputConfig(name, cf, nrf, oc, ts) ==
    [Name |-> name, ChannelFilter |-> cf, NoteRangeFilter |-> nrf,
     OverrideChannel |-> oc, TransposeSemitones |-> ts]

\* the outputs a configuration is built from
OutputChoices ==
    { OutputConfig("Out 1", Nil, Nil, Nil, Nil),
      OutputConfig("Out 2", Ptr([Channel |-> 1]), Nil, Ptr(5), Ptr(-12)),
      OutputConfig("Out 3", Nil, Ptr([MinNote |-> 100, MaxNote |-> 127]), Nil, Ptr(5)) }

\* func validateConfigStructure(config *Config) error: TRUE when it returns nil
validateConfigStructure(outs) ==
    /\ Len(outs) # 0
    /\ \A i \in 1..Len(outs) :
         LET output == outs[i]
         IN /\ output.Name # ""
            /\ ~(output.ChannelFilter # Nil
                 /\ (Deref(output.ChannelFilter).Channel < 1
                     \/ Deref(output.ChannelFilter).Channel > 16))
            /\ ~(output.NoteRangeFilter # Nil
                 /\ Deref(output.NoteRangeFilter).MinNote
                      > Deref(output.NoteRangeFilter).MaxNote)
            /\ ~(output.OverrideChannel # Nil
                 /\ (Deref(output.OverrideChannel) < 1
                     \/ Deref(output.OverrideChannel) > 16))
            /\ ~(output.TransposeSemitones # Nil
                 /\ (Deref(output.TransposeSemitones) < -127
                     \/ Deref(output.TransposeSemitones) > 127))

\* the configurations runMIDIRouter is started with: they passed
\* validateConfigStructure, and their outputs are told apart by name
Configs ==
    { outs \in UNION { [1..k -> OutputChoices] : k \in 1..MaxOutputs } :
        /\ validateConfigStructure(outs)
        /\ \A i \in 1..Len(outs) : \A j \in 1..Len(outs) :
             outs[i].Name = outs[j].Name => i = j }

---------------------------------------------------------------------------
(* The router: state after midi.ListenTo returned, then one action per     *)
(* incoming message and one for the shutdown signal.                       *)

FnIdle == op = "idle" /\ arg = <<>> /\ res = <<>>

\* main() is not part of this specification
MainIdle ==
    /\ pc = "idle"
    /\ flags = <<>>
    /\ file = <<>>
    /\ typed = <<>>
    /\ saved = {}

\* captureNote is not part of this specification
CapIdle ==
    /\ cpc = "idle"
    /\ capListening = FALSE
    /\ noteChan = <<>>
    /\ timer = "unset"
    /\ heard = <<>>
    /\ ret = <<>>

Init ==
    /\ config \in Configs
    /\ quiet \in BOOLEAN
    /\ listening = TRUE
    /\ inputs = <<>>
    /\ buf = <<>>
    /\ calls = <<>>
    /\ lines = <<>>
    /\ FnIdle
    /\ MainIdle
    /\ CapIdle

\* mutant: the sends of a message are held back and go out ahead of the older ones
Callback_Reordered(msg, fails) ==
    /\ listening
    /\ Len(inputs) < MaxMsgs
    /\ LET st == handleMessage(msg, config, fails, quiet, Len(inputs) + 1)
       IN /\ inputs' = Append(inputs, msg)
          /\ buf' = st.msg
          /\ calls' = st.calls \o calls
          /\ lines' = lines \o st.lines
          /\ listening' = ~st.exit
    /\ UNCHANGED <<config, quiet, fnVars, mainVars, capVars>>

\* the input transport delivers msg; the senders of the outputs in fails fail
Callback(msg, fails) ==
    /\ listening
    /\ Len(inputs) < MaxMsgs
    /\ LET st == handleMessage(msg, config, fails, quiet, Len(inputs) + 1)
       IN /\ inputs' = Append(inputs, msg)
          /\ buf' = st.msg
          /\ calls' = calls \o st.calls
          /\ lines' = lines \o st.lines
          /\ listening' = ~st.exit
    /\ UNCHANGED <<config, quiet, fnVars, mainVars, capVars>>

\* <-sigChan; fmt.Println("Shutting down..."); stop()
Shutdown ==
    /\ listening
    /\ listening' = FALSE
    /\ lines' = Append(lines, [n |-> 0, kind |-> "shutdown", out |-> 0,
                               name |-> "", msg |-> <<>>,
                               transform |-> EmptyTransformation])
    /\ UNCHANGED <<config, quiet, inputs, buf, calls, fnVars, mainVars, capVars>>

Next ==
    \/ \E msg \in RouterMsgs, fails \in SUBSET (1..Len(config)) : Callback(msg, fails)
    \/ Shutdown

Spec == Init /\ [][Next]_vars

---------------------------------------------------------------------------
(* The filters and transforms as functions: FnInit draws a message, each   *)
(* action draws the parameters and applies one function to it.             *)

\* data bytes used for keys, controller numbers and values
FnData == {0, 11, 48, 60, 122, 125, 127}
FnVelocities == {0, 80}

\* well-formed messages of every status byte 0x80..0xFF
FnMsgs ==
    { <<s, d1, d2>> : s \in (128..191) \cup (224..239), d1 \in FnData, d2 \in FnVelocities }
    \cup { <<s, d1>> : s \in 192..223, d1 \in FnData }
    \cup { <<240, d1, 247>> : d1 \in FnData }
    \cup { <<s, d1>> : s \in {241, 243}, d1 \in FnData }
    \cup { <<242, d1, d2>> : d1 \in FnData, d2 \in FnVelocities }
    \cup { <<s>> : s \in 244..255 }

FnChannels == 1..16
FnRanges == { r \in [MinNote : {0, 48, 60, 127}, MaxNote : {0, 48, 60, 127}] :
                r.MinNote <= r.MaxNote }
FnOutputs ==
    { OutputConfig("Out", cf, nrf, Nil, Nil) :
        cf \in {Nil} \cup { Ptr([Channel |-> c]) : c \in {1, 2, 9, 16} },
        nrf \in {Nil} \cup { Ptr(r) : r \in FnRanges } }
FnOverrides == {Nil} \cup { Ptr(o) : o \in 1..16 }
FnSemitones == {Nil} \cup { Ptr(t) : t \in {-127, -12, -5, -1, 0, 1, 5, 12, 127} }

\* signed offsets for the round trip
FnOffsets == {-127, -12, -5, -1, 0, 1, 5, 12, 127}
\* single outputs with and without each filter and each transform
FnRoutes ==
    { OutputConfig("Out", cf, nrf, oc, ts) :
        cf \in {Nil, Ptr([Channel |-> 5])},
        nrf \in {Nil, Ptr([MinNote |-> 48, MaxNote |-> 125])},
        oc \in {Nil, Ptr(5)},
        ts \in {Nil, Ptr(0), Ptr(5), Ptr(-12)} }

RouterIdle ==
    /\ config = <<>>
    /\ quiet = FALSE
    /\ listening = FALSE
    /\ inputs = <<>>
    /\ buf = <<>>
    /\ calls = <<>>
    /\ lines = <<>>

FnInit ==
    /\ RouterIdle
    /\ op = "init"
    /\ arg \in [msg : FnMsgs, p : {Nil}]
    /\ res = <<>>
    /\ MainIdle
    /\ CapIdle

FnChannelFilter(cf) ==
    /\ op = "init"
    /\ op' = "ChannelFilter.ShouldPass"
    /\ arg' = [arg EXCEPT !.p = cf]
    /\ res' = ChannelFilter_ShouldPass(cf, arg.msg)
    /\ UNCHANGED <<routerVars, mainVars, capVars>>

FnNoteRangeFilter(nrf) ==
    /\ op = "init"
    /\ op' = "NoteRangeFilter.ShouldPass"
    /\ arg' = [arg EXCEPT !.p = nrf]
    /\ res' = NoteRangeFilter_ShouldPass(nrf, arg.msg)
    /\ UNCHANGED <<routerVars, mainVars, capVars>>

FnShouldRoute(outputConfig) ==
    /\ op = "init"
    /\ op' = "shouldRouteMessage"
    /\ arg' = [arg EXCEPT !.p = outputConfig]
    /\ res' = shouldRouteMessage(arg.msg, outputConfig)
    /\ UNCHANGED <<routerVars, mainVars, capVars>>

FnChannelOverride(oc) ==
    /\ op = "init"
    /\ op' = "applyChannelOverride"
    /\ arg' = [arg EXCEPT !.p = oc]
    /\ res' = applyChannelOverride(arg.msg, oc, EmptyTransformation)
    /\ UNCHANGED <<routerVars, mainVars, capVars>>

FnNoteTransposition(ts) ==
    /\ op = "init"
    /\ op' = "applyNoteTransposition"
    /\ arg' = [arg EXCEPT !.p = ts]
    /\ res' = applyNoteTransposition(arg.msg, ts, EmptyTransformation)
    /\ UNCHANGED <<routerVars, mainVars, capVars>>

\* applyChannelOverride applied to its own result with the same override
FnChannelOverrideTwice(oc) ==
    /\ op = "init"
    /\ op' = "applyChannelOverride twice"
    /\ arg' = [arg EXCEPT !.p = oc]
    /\ res' = LET once == applyChannelOverride(arg.msg, oc, EmptyTransformation)
              IN [once |-> once.ret,
                  twice |-> applyChannelOverride(once.ret, oc, EmptyTransformation).ret]
    /\ UNCHANGED <<routerVars, mainVars, capVars>>

\* applyNoteTransposition by +n, then by -n on the result
FnTransposeRoundTrip(n) ==
    /\ op = "init"
    /\ op' = "applyNoteTransposition round trip"
    /\ arg' = [arg EXCEPT !.p = n]
    /\ res' = LET there == applyNoteTransposition(arg.msg, Ptr(n), EmptyTransformation)
              IN [there |-> there.ret,
                  back |-> applyNoteTransposition(there.ret, Ptr(-n),
                                                  EmptyTransformation).ret]
    /\ UNCHANGED <<routerVars, mainVars, capVars>>

\* the two transforms in the order of the dispatch loop and in the other order
FnBothOrders(oc, ts) ==
    /\ op = "init"
    /\ op' = "both orders"
    /\ arg' = [arg EXCEPT !.p = [OverrideChannel |-> oc, TransposeSemitones |-> ts]]
    /\ res' = [overrideFirst |->
                 applyNoteTransposition(
                     applyChannelOverride(arg.msg, oc, EmptyTransformation).ret,
                     ts, EmptyTransformation).ret,
               transposeFirst |->
                 applyChannelOverride(
                     applyNoteTransposition(arg.msg, ts, EmptyTransformation).ret,
                     oc, EmptyTransformation).ret]
    /\ UNCHANGED <<routerVars, mainVars, capVars>>

\* the dispatch callback run on one message with a single configured output,
\* reporting on
FnHandleMessage(outputConfig, fails) ==
    /\ op = "init"
    /\ op' = "handleMessage"
    /\ arg' = [arg EXCEPT !.p = outputConfig]
    /\ res' = handleMessage(arg.msg, <<outputConfig>>, fails, FALSE, 1)
    /\ UNCHANGED <<routerVars, mainVars, capVars>>

FnNext ==
    \/ \E c \in FnChannels : FnChannelFilter([Channel |-> c])
    \/ \E r \in FnRanges : FnNoteRangeFilter(r)
    \/ \E o \in FnOutputs : FnShouldRoute(o)
    \/ \E oc \in FnOverrides : FnChannelOverride(oc)
    \/ \E ts \in FnSemitones : FnNoteTransposition(ts)
    \/ \E oc \in FnOverrides \ {Nil} : FnChannelOverrideTwice(oc)
    \/ \E n \in FnOffsets : FnTransposeRoundTrip(n)
    \/ \E oc \in FnOverrides, ts \in FnSemitones : FnBothOrders(oc, ts)
    \/ \E o \in FnRoutes, fails \in SUBSET {1} : FnHandleMessage(o, fails)

FnSpec == FnInit /\ [][FnNext]_vars

---------------------------------------------------------------------------
(* main(): the command line, the configuration file, the interactive      *)
(* configuration and the start of the router.  A configuration is the     *)
(* sequence of its outputs; InputDevice and OutputBase are names that do  *)
(* not enter any decision below except through the device lookups, which  *)
(* are inputs of the actions.                                             *)

\* a function's (value, error) result
Ok(v) == [err |-> FALSE, value |-> v]
Err == [err |-> TRUE, value |-> Nil]

\* the value fits the Go type json.Unmarshal decodes it into
FitsUint8(n) == n >= 0 /\ n <= 255
FitsInt8(n) == n >= -128 /\ n <= 127

\* json.Unmarshal of one output: a number that overflows its field is an error
UnmarshalFits(output) ==
    /\ output.ChannelFilter # Nil => FitsUint8(Deref(output.ChannelFilter).Channel)
    /\ output.NoteRangeFilter # Nil =>
         /\ FitsUint8(Deref(output.NoteRangeFilter).MinNote)
         /\ FitsUint8(Deref(output.NoteRangeFilter).MaxNote)
    /\ output.OverrideChannel # Nil => FitsUint8(Deref(output.OverrideChannel))
    /\ output.TransposeSemitones # Nil => FitsInt8(Deref(output.TransposeSemitones))

\* func loadConfig(filename string) (*Config, error)
loadConfig(f) ==
    IF ~f.readable THEN Err
    ELSE IF \E i \in 1..Len(f.outputs) : ~UnmarshalFits(f.outputs[i]) THEN Err
    ELSE Ok(f.outputs)

\* func loadConfigWithFallback(filename string, drv *rtmididrv.Driver) (*Config, error)
\* deviceFound: validateInputDevice returns nil; selectOk: selectInputDevice does
loadConfigWithFallback(f, deviceFound, selectOk) ==
    LET loaded == loadConfig(f)
    IN IF loaded.err THEN Err
       ELSE IF ~validateConfigStructure(loaded.value) THEN Err
       ELSE IF ~deviceFound /\ ~selectOk THEN Err
       ELSE Ok(loaded.value)

\* fmt.Sprintf("Out %d", i+1), for the outputs the wizard can create
DefaultOutputName(i) ==
    << "Out 1", "Out 2", "Out 3", "Out 4", "Out 5", "Out 6", "Out 7", "Out 8",
       "Out 9", "Out 10", "Out 11", "Out 12", "Out 13", "Out 14", "Out 15",
       "Out 16" >>[i]

\* A typed line is Nil when reader.ReadString fails, else Ptr(text) with the
\* trimmed lower-case text.  For a line that is asked for a number the text
\* is what strconv.Atoi makes of it: Ptr(n), or Nil when Atoi rejects it.
Line(text) == Ptr(text)
Numeral(n) == Ptr(Ptr(n))
NotANumber == Ptr(Nil)
ReadError == Nil

\* "Enable ...? (y/N)" followed by a number between lo and hi
ReadNumber(answer, lo, hi) ==
    IF answer.enable = ReadError THEN Err
    ELSE IF answer.enable # Line("y") THEN Ok(Nil)
    ELSE IF answer.line = ReadError THEN Err
    ELSE IF answer.line = NotANumber THEN Err
    ELSE IF Deref(Deref(answer.line)) < lo \/ Deref(Deref(answer.line)) > hi THEN Err
    ELSE Ok(Deref(answer.line))

\* mutant: the two captured notes are kept in the order they were played
configureNoteRange_NoSwap(answer) ==
    IF answer.lowest = Nil THEN Err
    ELSE IF answer.highest = Nil THEN Err
    ELSE IF answer.confirm = ReadError THEN Err
    ELSE IF answer.confirm = Line("n") THEN Ok(Nil)
    ELSE Ok(Ptr([MinNote |-> Deref(answer.lowest),
                 MaxNote |-> Deref(answer.highest)]))

\* func configureNoteRange(inputPort drivers.In) (*NoteRangeFilter, error)
\* lowest, highest: what captureNote returns, Nil for an error or a timeout
configureNoteRange(answer) ==
    IF answer.lowest = Nil THEN Err
    ELSE IF answer.highest = Nil THEN Err
    ELSE LET swap == Deref(answer.lowest) > Deref(answer.highest)
             minNote == IF swap THEN Deref(answer.highest) ELSE Deref(answer.lowest)
             maxNote == IF swap THEN Deref(answer.lowest) ELSE Deref(answer.highest)
         IN IF answer.confirm = ReadError THEN Err
            ELSE IF answer.confirm = Line("n") THEN Ok(Nil)
            ELSE Ok(Ptr([MinNote |-> minNote, MaxNote |-> maxNote]))

\* the body of the loop of interactiveConfig for output i (counted from 1)
configureOutput(i, answer) ==
    IF answer.name = ReadError THEN Err
    ELSE
    LET outputName == IF answer.name = Line("") THEN DefaultOutputName(i)
                      ELSE Deref(answer.name)
        channel == ReadNumber(answer.channelFilter, 1, 16)
    IN IF channel.err THEN Err
       ELSE
       LET noteRange == IF answer.noteRange.enable = ReadError THEN Err
                        ELSE IF answer.noteRange.enable # Line("y") THEN Ok(Nil)
                        ELSE configureNoteRange(answer.noteRange)
       IN IF noteRange.err THEN Err
          ELSE
          LET override == ReadNumber(answer.override, 1, 16)
          IN IF override.err THEN Err
             ELSE
             LET transpose == ReadNumber(answer.transpose, -127, 127)
             IN IF transpose.err THEN Err
                ELSE Ok(OutputConfig(
                          outputName,
                          IF channel.value = Nil THEN Nil
                          ELSE Ptr([Channel |-> U8(Deref(channel.value))]),
                          noteRange.value,
                          IF override.value = Nil THEN Nil
                          ELSE Ptr(U8(Deref(override.value))),
                          transpose.value))

\* what the user answers for output i: one set of answers for the first
\* output and one for all the others
AnswerOf(t, i) == IF i = 1 THEN t.first ELSE t.rest

\* for i := 0; i < numOutputs; i++ { ... }
RECURSIVE configureOutputs(_, _, _, _)
configureOutputs(i, numOutputs, t, outputs) ==
    IF i > numOutputs THEN Ok(outputs)
    ELSE LET o == configureOutput(i, AnswerOf(t, i))
         IN IF o.err THEN Err
            ELSE configureOutputs(i + 1, numOutputs, t, Append(outputs, o.value))

\* func interactiveConfig(drv *rtmididrv.Driver) (*Config, error)
interactiveConfig(t) ==
    IF ~t.selectOk THEN Err
    ELSE IF t.outputBase = ReadError THEN Err
    ELSE IF t.numOutputs = ReadError THEN Err
    ELSE IF t.numOutputs = NotANumber THEN Err
    ELSE IF Deref(Deref(t.numOutputs)) < 1 \/ Deref(Deref(t.numOutputs)) > 16 THEN Err
    ELSE configureOutputs(1, Deref(Deref(t.numOutputs)), t, <<>>)

\* ---- the inputs of main ----

\* the outputs a configuration file is written with
FileOutputChoices ==
    { OutputConfig(name, cf, nrf, oc, ts) :
        name \in {"Out 1", ""},
        cf \in {Nil} \cup {Ptr([Channel |-> c]) : c \in {0, 16, 17, 256}},
        nrf \in {Nil} \cup {Ptr([MinNote |-> r[1], MaxNote |-> r[2]]) :
                             r \in {<<48, 60>>, <<60, 48>>, <<60, 60>>}},
        oc \in {Nil, Ptr(0), Ptr(1), Ptr(17)},
        ts \in {Nil, Ptr(-129), Ptr(-128), Ptr(-127), Ptr(127), Ptr(128)} }

\* a file of n outputs that have a name and nothing else
PlainOutputs(n) == [i \in 1..n |-> OutputConfig(DefaultOutputName(((i - 1) % 16) + 1), Nil, Nil, Nil, Nil)]

\* the files --config can name: unreadable or not JSON, no outputs, one
\* output, a plain output followed by another, and 16 and 17 plain outputs
MainFiles ==
    {[readable |-> FALSE, outputs |-> <<>>]}
    \cup {[readable |-> TRUE, outputs |-> outs] :
            outs \in {<<>>, PlainOutputs(16), PlainOutputs(17)}
                     \cup {<<o>> : o \in FileOutputChoices}
                     \cup {PlainOutputs(1) \o <<o>> : o \in FileOutputChoices}}

\* the answers to "Enable ...? (y/N)" and the number asked for after a "y"
Off == [enable |-> Line(""), line |-> ReadError]
On(line) == [enable |-> Line("y"), line |-> line]
NumberAnswers(numbers) ==
    {Off, [enable |-> Line("n"), line |-> ReadError]}
    \cup {On(Numeral(n)) : n \in numbers}

\* the answers to the note range questions and the notes played
NoRange ==
    [enable |-> Line(""), lowest |-> Nil, highest |-> Nil, confirm |-> ReadError]
Played(lowest, highest, confirm) ==
    [enable |-> Line("y"), lowest |-> lowest, highest |-> highest,
     confirm |-> confirm]
NoteRangeAnswers ==
    { NoRange,
      Played(Ptr(48), Ptr(60), Line("y")),
      Played(Ptr(60), Ptr(48), Line("")),
      Played(Ptr(60), Ptr(48), Line("n")),
      Played(Ptr(60), Nil, ReadError) }

\* what the user answers for the first output
FirstAnswers ==
    [name : {Line("")},
     channelFilter : NumberAnswers({0, 16, 17}),
     noteRange : NoteRangeAnswers,
     override : NumberAnswers({1, 17}),
     transpose : NumberAnswers({-128, -127, 127, 128})]

\* what the user answers for every other output: nothing enabled,
\* everything enabled, a channel that is no number, and the end of the input
RestAnswers ==
    { [name |-> Line(""), channelFilter |-> Off, noteRange |-> NoRange,
       override |-> Off, transpose |-> Off],
      [name |-> Line("Lead"), channelFilter |-> On(Numeral(1)),
       noteRange |-> Played(Ptr(72), Ptr(60), Line("y")),
       override |-> On(Numeral(16)), transpose |-> On(Numeral(12))],
      [name |-> Line(""), channelFilter |-> On(NotANumber), noteRange |-> NoRange,
       override |-> Off, transpose |-> Off],
      [name |-> Line(""), channelFilter |-> Off, noteRange |-> NoRange,
       override |-> Off, transpose |-> [enable |-> ReadError, line |-> ReadError]] }

\* what the user types and plays during interactiveConfig
Typed ==
    [selectOk : BOOLEAN,
     outputBase : {Line("")},
     numOutputs : {NotANumber} \cup {Numeral(n) : n \in {0, 1, 2, 16, 17}},
     first : FirstAnswers,
     rest : RestAnswers]

\* ---- the steps of main ----

\* flag.Parse() has run
MainInit ==
    /\ config = <<>>
    /\ quiet \in BOOLEAN
    /\ listening = FALSE
    /\ inputs = <<>>
    /\ buf = <<>>
    /\ calls = <<>>
    /\ lines = <<>>
    /\ FnIdle
    /\ CapIdle
    /\ pc = "start"
    /\ flags \in [configFile : {"", "router.json"}, saveConfigFile : {"", "setup.json"}]
    /\ file \in (IF flags.configFile = "" THEN {Nil} ELSE MainFiles)
    /\ typed = <<>>
    /\ saved = {}

\* drv, err := rtmididrv.New(); log.Fatalf on an error
MainNewDriver(ok) ==
    /\ pc = "start"
    /\ pc' = IF ok THEN "driver" ELSE "fatal"
    /\ UNCHANGED <<routerVars, fnVars, capVars, flags, file, typed, saved>>

\* if *configFile != "" { config, err = loadConfigWithFallback(...) }
MainLoadConfig(deviceFound, selectOk) ==
    /\ pc = "driver"
    /\ flags.configFile # ""
    /\ LET r == loadConfigWithFallback(file, deviceFound, selectOk)
       IN IF r.err
          THEN pc' = "fatal" /\ config' = config
          ELSE pc' = "run" /\ config' = r.value
    /\ UNCHANGED <<quiet, listening, inputs, buf, calls, lines, fnVars, capVars,
                   flags, file, typed, saved>>

\* } else { config, err = interactiveConfig(drv) ...
\* the user types and plays t
MainInteractive ==
    /\ pc = "driver"
    /\ flags.configFile = ""
    /\ \E t \in Typed :
         /\ typed' = t
         /\ LET r == interactiveConfig(t)
            IN IF r.err
               THEN pc' = "fatal" /\ config' = config
               ELSE pc' = "configured" /\ config' = r.value
    /\ UNCHANGED <<quiet, listening, inputs, buf, calls, lines, fnVars, capVars,
                   flags, file, saved>>

\* if *saveConfigFile != "" { saveConfig(config, *saveConfigFile); return }
MainSaveOnly(writeOk) ==
    /\ pc = "configured"
    /\ flags.saveConfigFile # ""
    /\ IF writeOk
       THEN pc' = "exit" /\ saved' = saved \cup {flags.saveConfigFile}
       ELSE pc' = "fatal" /\ saved' = saved
    /\ UNCHANGED <<routerVars, fnVars, capVars, flags, file, typed>>

\* err = saveConfig(config, "config.json"); a failure is a warning
MainSaveDefault(writeOk) ==
    /\ pc = "configured"
    /\ flags.saveConfigFile = ""
    /\ pc' = "run"
    /\ saved' = IF writeOk THEN saved \cup {"config.json"} ELSE saved
    /\ lines' = IF writeOk THEN lines
                ELSE Append(lines, [n |-> 0, kind |-> "warning", out |-> 0,
                                    name |-> "config.json", msg |-> <<>>,
                                    transform |-> EmptyTransformation])
    /\ UNCHANGED <<config, quiet, listening, inputs, buf, calls, fnVars, capVars,
                   flags, file, typed>>

\* err = runMIDIRouter(drv, config, *quiet), up to midi.ListenTo;
\* startOk: the input device is found and every virtual output opens
MainRunRouter(startOk) ==
    /\ pc = "run"
    /\ pc' = IF startOk THEN "routing" ELSE "fatal"
    /\ listening' = startOk
    /\ UNCHANGED <<config, quiet, inputs, buf, calls, lines, fnVars, capVars,
                   flags, file, typed, saved>>

\* <-sigChan; stop(); runMIDIRouter returns nil and main returns
MainInterrupt ==
    /\ pc = "routing"
    /\ pc' = "exit"
    /\ listening' = FALSE
    /\ lines' = Append(lines, [n |-> 0, kind |-> "shutdown", out |-> 0,
                               name |-> "", msg |-> <<>>,
                               transform |-> EmptyTransformation])
    /\ UNCHANGED <<config, quiet, inputs, buf, calls, fnVars, capVars,
                   flags, file, typed, saved>>

MainNext ==
    \/ \E ok \in BOOLEAN : MainNewDriver(ok)
    \/ \E deviceFound \in BOOLEAN, selectOk \in BOOLEAN :
         MainLoadConfig(deviceFound, selectOk)
    \/ MainInteractive
    \/ \E writeOk \in BOOLEAN : MainSaveOnly(writeOk)
    \/ \E writeOk \in BOOLEAN : MainSaveDefault(writeOk)
    \/ \E startOk \in BOOLEAN : MainRunRouter(startOk)
    \/ MainInterrupt

MainSpec == MainInit /\ [][MainNext]_vars

---------------------------------------------------------------------------
(* Properties of the filters and transforms, checked under FnSpec *)

IsChannelMessage(msg) == msg[1] >= 128 /\ msg[1] <= 239
IsSystemMessage(msg) == msg[1] >= 240 /\ msg[1] <= 255
IsNoteMessage(msg) == msg[1] \div 16 \in {8, 9}

\* C1: shouldRouteMessage passes a message iff every filter configured on the
\* output (channel filter, note-range filter) returns true; an absent filter
\* is no constraint, so an output without filters passes every message.
C1_RouteIffAllFiltersPass ==
    op = "shouldRouteMessage" =>
        /\ res = ( /\ (arg.p.ChannelFilter # Nil =>
                         ChannelFilter_ShouldPass(Deref(arg.p.ChannelFilter), arg.msg))
                   /\ (arg.p.NoteRangeFilter # Nil =>
                         NoteRangeFilter_ShouldPass(Deref(arg.p.NoteRangeFilter), arg.msg)) )
        /\ (arg.p.ChannelFilter = Nil /\ arg.p.NoteRangeFilter = Nil => res = TRUE)

\* a message that passes the configured channel filter and is rejected by the
\* configured note-range filter is not routed
C1_Witness ==
    /\ op = "shouldRouteMessage"
    /\ arg.p.ChannelFilter # Nil
    /\ arg.p.NoteRangeFilter # Nil
    /\ ChannelFilter_ShouldPass(Deref(arg.p.ChannelFilter), arg.msg)
    /\ ~NoteRangeFilter_ShouldPass(Deref(arg.p.NoteRangeFilter), arg.msg)
    /\ res = FALSE

\* C7: for a channel message (status 0x80-0xEF) and a configured channel c,
\* ChannelFilter.ShouldPass is true iff (low nibble of the status byte) + 1 = c.
C7_ChannelFilterMatchesChannel ==
    op = "ChannelFilter.ShouldPass" /\ IsChannelMessage(arg.msg) =>
        res = (And0F(arg.msg[1]) + 1 = arg.p.Channel)

\* a Note Off on wire channel 4 passes the filter for channel 5
C7_Witness ==
    /\ op = "ChannelFilter.ShouldPass"
    /\ arg.msg[1] = 128 + 4
    /\ arg.p.Channel = 5
    /\ res = TRUE

\* C8: for a system message (status 0xF0-0xFF) and every configured channel
\* in 1..16, ChannelFilter.ShouldPass returns true.
C8_SystemMessagesPassChannelFilter ==
    op = "ChannelFilter.ShouldPass" /\ IsSystemMessage(arg.msg) => res = TRUE

\* C9: NoteRangeFilter.ShouldPass is, for a Note On or Note Off (by status
\* nibble, whatever the velocity), true iff minNote <= key <= maxNote, and is
\* true for every other message.
C9_NoteRangeInclusive ==
    op = "NoteRangeFilter.ShouldPass" =>
        IF IsNoteMessage(arg.msg)
        THEN res = (arg.p.MinNote <= arg.msg[2] /\ arg.msg[2] <= arg.p.MaxNote)
        ELSE res = TRUE

\* a Note On with velocity 0 whose key is the upper end of the range passes
C9_Witness ==
    /\ op = "NoteRangeFilter.ShouldPass"
    /\ arg.msg[1] \div 16 = 9
    /\ arg.msg[3] = 0
    /\ arg.msg[2] = arg.p.MaxNote
    /\ arg.p.MinNote < arg.p.MaxNote
    /\ res = TRUE

---------------------------------------------------------------------------
(* Properties of the dispatch callback, checked under Spec *)

\* the sender calls made while handling incoming message n
CallsOfMsg(n) == SelectSeq(calls, LAMBDA c : c.n = n)
\* the sender calls made for output i, over all messages
CallsOfOutput(i) == SelectSeq(calls, LAMBDA c : c.out = i)
\* the report lines of one kind printed while handling incoming message n
LinesOf(n, kind) == SelectSeq(lines, LAMBDA l : l.n = n /\ l.kind = kind)
\* what output outputConfig is sent for an incoming msg taken alone
Transformed(msg, outputConfig) ==
    applyNoteTransposition(
        applyChannelOverride(msg, outputConfig.OverrideChannel, EmptyTransformation).ret,
        outputConfig.TransposeSemitones, EmptyTransformation).ret
Outs(cs) == [k \in 1..Len(cs) |-> cs[k].out]
Sent(cs) == [k \in 1..Len(cs) |-> cs[k].msg]

\* C2: while one incoming message is handled its bytes are never changed,
\* and whether output i is sent the message, and the bytes it is sent, depend
\* only on the original message and on output i's own configuration.
C2_OutputsIndependent ==
    /\ inputs # <<>> => buf = inputs[Len(inputs)]
    /\ \A k \in 1..Len(lines) :
         lines[k].kind \in {"route", "dropped"} => lines[k].msg = inputs[lines[k].n]
    /\ \A n \in 1..Len(inputs) : \A i \in 1..Len(config) :
         Sent(SelectSeq(CallsOfMsg(n), LAMBDA c : c.out = i))
           = IF shouldRouteMessage(inputs[n], config[i])
             THEN <<Transformed(inputs[n], config[i])>>
             ELSE <<>>

\* one message went to an output that rewrote it and then to a later output
\* that got the original bytes
C2_Witness ==
    \E k \in 1..Len(calls) : \E l \in (k + 1)..Len(calls) :
        /\ calls[k].n = calls[l].n
        /\ calls[k].msg # inputs[calls[k].n]
        /\ calls[l].msg = inputs[calls[l].n]

\* C3: a failed send does not stop the handling of the message (every output
\* whose filters pass still gets its send), the next message is handled the
\* same way, and only the shutdown signal stops the router.
C3_SendFailureIsNotFatal ==
    /\ \A n \in 1..Len(inputs) : \A i \in 1..Len(config) :
         shouldRouteMessage(inputs[n], config[i]) =>
             \E k \in 1..Len(calls) : calls[k].n = n /\ calls[k].out = i
    /\ listening \/ \E k \in 1..Len(lines) : lines[k].kind = "shutdown"

\* a send failed, a later output of the same message was sent to, and the
\* failed output was sent the next message
C3_Witness ==
    /\ listening
    /\ \E k \in 1..Len(calls) : \E l \in (k + 1)..Len(calls) :
       \E m \in (l + 1)..Len(calls) :
        /\ ~calls[k].ok
        /\ calls[l].n = calls[k].n /\ calls[l].out > calls[k].out
        /\ calls[m].n = calls[k].n + 1 /\ calls[m].out = calls[k].out /\ calls[m].ok

\* C4: with reporting on, a message no output forwarded (filtered out or send
\* failed everywhere) gets exactly one dropped line and no route line; any
\* other message gets one route line per output whose send succeeded, in
\* order, and no dropped line.
C4_ReportLines ==
    ~quiet =>
        \A n \in 1..Len(inputs) :
            LET forwarded == Outs(SelectSeq(CallsOfMsg(n), LAMBDA c : c.ok))
                route == LinesOf(n, "route")
                dropped == LinesOf(n, "dropped")
            IN IF forwarded = <<>>
               THEN Len(dropped) = 1 /\ route = <<>>
               ELSE dropped = <<>> /\ Outs(route) = forwarded

\* with reporting on: one message whose only send failed and that got the
\* dropped line, and one message with a failed and a successful send and a
\* single route line
C4_Witness ==
    /\ ~quiet
    /\ \E n \in 1..Len(inputs) :
        /\ CallsOfMsg(n) # <<>>
        /\ \A k \in 1..Len(CallsOfMsg(n)) : ~CallsOfMsg(n)[k].ok
        /\ Len(LinesOf(n, "dropped")) = 1
    /\ \E n \in 1..Len(inputs) :
        /\ \E k \in 1..Len(CallsOfMsg(n)) : ~CallsOfMsg(n)[k].ok
        /\ Len(LinesOf(n, "route")) = 1

\* C5: for every incoming message the senders are called in configuration
\* order, once for each output whose filters pass the message and never for
\* another output; a failed send is not repeated.
C5_OneSendPerPassingOutput ==
    \A n \in 1..Len(inputs) :
        LET outs == Outs(CallsOfMsg(n))
        IN /\ \A k \in 1..Len(outs) : \A l \in (k + 1)..Len(outs) : outs[k] < outs[l]
           /\ {outs[k] : k \in 1..Len(outs)}
                = {i \in 1..Len(config) : shouldRouteMessage(inputs[n], config[i])}

\* a message that one output filtered out, whose send to another output failed
C5_Witness ==
    \E n \in 1..Len(inputs) :
        /\ \E i \in 1..Len(config) : ~shouldRouteMessage(inputs[n], config[i])
        /\ Len(CallsOfMsg(n)) = 1
        /\ ~CallsOfMsg(n)[1].ok

\* C6: the messages sent to an output are, in order, the incoming messages
\* that pass its filters, each after that output's transforms.
C6_OutputOrderMirrorsInput ==
    \A i \in 1..Len(config) :
        LET passing == SelectSeq(inputs, LAMBDA m : shouldRouteMessage(m, config[i]))
        IN Sent(CallsOfOutput(i))
             = [k \in 1..Len(passing) |-> Transformed(passing[k], config[i])]

\* an output was sent two different messages in a row, the first rewritten
C6_Witness ==
    \E i \in 1..Len(config) :
        /\ Len(CallsOfOutput(i)) >= 2
        /\ CallsOfOutput(i)[1].msg # CallsOfOutput(i)[2].msg
        /\ CallsOfOutput(i)[1].msg # inputs[CallsOfOutput(i)[1].n]

---------------------------------------------------------------------------
(* Properties of the transforms and of one output's route, under FnSpec *)

InNoteRange(x) == 0 <= x /\ x <= 127

\* C11: channel override is idempotent: applying it with the same override
\* channel o in 1..16 to its own result gives the bytes of applying it once.
C11_OverrideIdempotent ==
    op = "applyChannelOverride twice" => res.twice = res.once

\* a Note On on channel 1 overridden to channel 5, twice
C11_Witness ==
    /\ op = "applyChannelOverride twice"
    /\ arg.msg[1] = 144
    /\ arg.p = Ptr(5)
    /\ res.once[1] = 148
    /\ res.twice = res.once

\* C12: applyNoteTransposition with offset s: a Note On/Off with key k, s set
\* and non-zero and k+s in 0..127 comes back with the note byte k+s and
\* nothing else changed, and the record holds k -> k+s; with k+s outside
\* 0..127, or s unset or zero, or another kind of message, the bytes come
\* back identical (no clamping) and no note record is set.
C12_NoteTransposition ==
    op = "applyNoteTransposition" =>
        IF /\ arg.p # Nil
           /\ IsNoteMessage(arg.msg)
           /\ Deref(arg.p) # 0
           /\ InNoteRange(arg.msg[2] + Deref(arg.p))
        THEN /\ res.ret = [arg.msg EXCEPT ![2] = arg.msg[2] + Deref(arg.p)]
             /\ res.transform.OriginalNote = Ptr(arg.msg[2])
             /\ res.transform.TransformedNote = Ptr(arg.msg[2] + Deref(arg.p))
        ELSE /\ res.ret = arg.msg
             /\ res.transform.OriginalNote = Nil
             /\ res.transform.TransformedNote = Nil

\* a Note Off with key 60 moved down an octave
C12_Witness ==
    /\ op = "applyNoteTransposition"
    /\ arg.msg[1] \div 16 = 8
    /\ arg.msg[2] = 60
    /\ arg.p = Ptr(-12)
    /\ res.ret[2] = 48
    /\ res.transform.TransformedNote = Ptr(48)

\* the case C13 is about: the output has a transposition, the message is a
\* Note On/Off that passes its filters, and key + semitones leaves 0..127
C13_Case ==
    /\ op = "handleMessage"
    /\ arg.p.TransposeSemitones # Nil
    /\ IsNoteMessage(arg.msg)
    /\ shouldRouteMessage(arg.msg, arg.p)
    /\ ~InNoteRange(arg.msg[2] + Deref(arg.p.TransposeSemitones))

\* C13 as stated: in that case, whatever the output's other settings, the
\* message sent to the output is the original incoming message, unchanged.
C13_OutOfRangeSendsOriginal ==
    C13_Case => Len(res.calls) = 1 /\ res.calls[1].msg = arg.msg

\* C13 as amended: in that case the message sent keeps its length, message
\* type, key and velocity; it is the incoming message byte for byte when the
\* output has no channel override, and has the channel nibble override-1 when
\* it has one.
C13_OutOfRangeKeepsNote ==
    C13_Case =>
        /\ Len(res.calls) = 1
        /\ LET sent == res.calls[1].msg
           IN /\ Len(sent) = Len(arg.msg)
              /\ sent[1] \div 16 = arg.msg[1] \div 16
              /\ sent[2] = arg.msg[2]
              /\ sent[3] = arg.msg[3]
              /\ IF arg.p.OverrideChannel = Nil
                 THEN sent = arg.msg
                 ELSE sent[1] % 16 = Deref(arg.p.OverrideChannel) - 1

\* key 125 up 5 semitones on an output that overrides channel 1 to channel 5
C13_Witness ==
    /\ C13_Case
    /\ arg.msg[1] = 144 /\ arg.msg[2] = 125
    /\ arg.p.TransposeSemitones = Ptr(5)
    /\ arg.p.OverrideChannel = Ptr(5)
    /\ res.calls[1].msg[1] = 148
    /\ res.calls[1].msg[2] = 125

\* C14: for a Note On/Off with key k and an offset n with k+n in 0..127,
\* transposing by +n and then by -n gives back the message byte for byte.
C14_TransposeRoundTrip ==
    /\ op = "applyNoteTransposition round trip"
    /\ IsNoteMessage(arg.msg)
    /\ InNoteRange(arg.msg[2] + arg.p)
    => res.back = arg.msg

\* key 60 down an octave and up again
C14_Witness ==
    /\ op = "applyNoteTransposition round trip"
    /\ IsNoteMessage(arg.msg)
    /\ arg.msg[2] = 60
    /\ arg.p = -12
    /\ res.there[2] = 48
    /\ res.back = arg.msg

\* C15: for every message, override (set or unset) and offset (set or
\* unset), override-then-transpose and transpose-then-override give the same
\* bytes.
C15_TransformsCommute ==
    op = "both orders" => res.overrideFirst = res.transposeFirst

\* both transforms change the message
C15_Witness ==
    /\ op = "both orders"
    /\ res.overrideFirst[1] # arg.msg[1]
    /\ res.overrideFirst[2] # arg.msg[2]
    /\ res.transposeFirst = res.overrideFirst

\* C16 as stated: an output with no channel filter and no note-range filter
\* is sent every incoming message with the bytes as received.
C16_NoFiltersForwardsUnchanged ==
    /\ op = "handleMessage"
    /\ arg.p.ChannelFilter = Nil
    /\ arg.p.NoteRangeFilter = Nil
    => Len(res.calls) = 1 /\ res.calls[1].msg = arg.msg

\* C16 as amended: an output with no channel filter and no note-range filter
\* is sent every incoming message, once; the bytes sent are the bytes
\* received when the output has no channel override and no transposition
\* either.
C16_NoFiltersForwardsAll ==
    /\ op = "handleMessage"
    /\ arg.p.ChannelFilter = Nil
    /\ arg.p.NoteRangeFilter = Nil
    => /\ Len(res.calls) = 1
       /\ (arg.p.OverrideChannel = Nil /\ arg.p.TransposeSemitones = Nil
             => res.calls[1].msg = arg.msg)

\* a timing clock message forwarded as received by an output with nothing
\* configured
C16_Witness ==
    /\ op = "handleMessage"
    /\ arg.p = OutputConfig("Out", Nil, Nil, Nil, Nil)
    /\ arg.msg = TimingClockMsg
    /\ Len(res.calls) = 1
    /\ res.calls[1].ok
    /\ res.calls[1].msg = TimingClockMsg

\* C20: in the record of a route line the channel fields are nil when the
\* message has no channel or the channel sent equals the original one, and
\* the note fields are nil when the message is no note message or the note
\* sent equals the original one; so the line shows "channel: N->M" or
\* "note: N->M" only with M different from N.
C20_RecordOnlyOnChange ==
    op = "handleMessage" =>
        \A k \in 1..Len(res.lines) :
            LET l == res.lines[k]
                sent == res.calls[1].msg
                ch == formatChannelTransformation(extractChannelFromMessage(l.msg),
                                                  l.transform)
                nt == formatNoteTransformation(l.msg[2], l.transform)
            IN l.kind = "route" =>
                /\ (~IsChannelMessage(l.msg) \/ sent[1] = l.msg[1]
                      => l.transform.OriginalChannel = Nil
                         /\ l.transform.TransformedChannel = Nil)
                /\ (~IsNoteMessage(l.msg) \/ sent[2] = l.msg[2]
                      => l.transform.OriginalNote = Nil
                         /\ l.transform.TransformedNote = Nil)
                /\ (ch.after # Nil => Deref(ch.after) # ch.before)
                /\ (IsNoteMessage(l.msg) /\ nt.after # Nil
                      => Deref(nt.after) # nt.before)


---------------------------------------------------------------------------
(* Properties of main(), checked under MainSpec *)

\* main has called runMIDIRouter with config
RouterStarted == pc \in {"run", "routing"}

\* the configuration came from interactiveConfig
FromWizard == typed # <<>> /\ pc \in {"configured", "run", "routing", "exit"}

\* the four validation conditions on one output, on plain numbers
OutputInRange(output) ==
    /\ output.ChannelFilter # Nil =>
         Deref(output.ChannelFilter).Channel \in 1..16
    /\ output.OverrideChannel # Nil => Deref(output.OverrideChannel) \in 1..16
    /\ output.NoteRangeFilter # Nil =>
         Deref(output.NoteRangeFilter).MinNote <= Deref(output.NoteRangeFilter).MaxNote
    /\ output.TransposeSemitones # Nil =>
         Deref(output.TransposeSemitones) \in -127..127

ConfigInRange(outs) ==
    /\ Len(outs) >= 1
    /\ \A i \in 1..Len(outs) : OutputInRange(outs[i])

\* the user played two notes for output i and was asked to confirm the range
RangePlayed(i) ==
    /\ AnswerOf(typed, i).noteRange.enable = Line("y")
    /\ AnswerOf(typed, i).noteRange.lowest # Nil
    /\ AnswerOf(typed, i).noteRange.highest # Nil

\* C17: every configuration runMIDIRouter is started with, from a file or
\* from the wizard, has at least one output, channel filters and override
\* channels in 1..16, note ranges with minNote <= maxNote and transposes in
\* -127..127; the wizard stores two notes played in any order as
\* (smaller, larger) and stores no filter when the user rejects the range;
\* a file that violates one of the conditions ends in an error and the
\* router is not started.
C17_StartedConfigIsValid ==
    /\ RouterStarted => ConfigInRange(config)
    /\ FromWizard =>
         \A i \in 1..Len(config) :
           RangePlayed(i) =>
             LET played == AnswerOf(typed, i).noteRange
                 a == Deref(played.lowest)
                 b == Deref(played.highest)
             IN config[i].NoteRangeFilter =
                  IF played.confirm = Line("n") THEN Nil
                  ELSE Ptr([MinNote |-> IF a < b THEN a ELSE b,
                            MaxNote |-> IF a < b THEN b ELSE a])
    /\ (/\ flags.configFile # ""
        /\ pc \notin {"start", "driver"}
        /\ (~file.readable \/ ~ConfigInRange(file.outputs)))
       => pc = "fatal"

\* the router is started with a range the wizard swapped and with an
\* output whose range the user rejected
C17_Witness ==
    /\ RouterStarted
    /\ FromWizard
    /\ Len(config) = 2
    /\ typed.first.noteRange = Played(Ptr(60), Ptr(48), Line("n"))
    /\ config[1].NoteRangeFilter = Nil
    /\ typed.rest.noteRange = Played(Ptr(72), Ptr(60), Line("y"))
    /\ config[2].NoteRangeFilter = Ptr([MinNote |-> 60, MaxNote |-> 72])

\* C18: an invocation with --save-config FILE, alone or with other flags,
\* never starts the router, and when it has exited FILE has been saved from
\* the interactive configuration.
C18_SaveConfigNeverRuns ==
    flags.saveConfigFile # "" =>
      /\ ~RouterStarted
      /\ pc = "exit" => (typed # <<>> /\ flags.saveConfigFile \in saved)

\* C19: the router is started with between 1 and 16 outputs, on the
\* interactive path and on the --config path.
C19_OneToSixteenOutputs ==
    RouterStarted => (Len(config) >= 1 /\ Len(config) <= 16)


---------------------------------------------------------------------------
(* captureNote: one goroutine calls it and waits in the select; the input *)
(* transport calls the callback from its own thread.  errorChan is made   *)
(* and never sent to, so its case of the select is never ready.           *)

\* the most messages the transport delivers during one captureNote
MaxHeard == 3

\* the messages the transport delivers
CapMsgs ==
    { NoteOnMsg(0, 60, 80), NoteOnMsg(0, 64, 100), NoteOnMsg(1, 62, 0),
      NoteOffMsg(0, 61, 64), ControlChangeMsg(0, 7, 100) }

\* mutant: the callback takes every Note On, also with velocity 0
captureNoteAccepts_AnyNoteOn(msg) == GetNoteOn(msg)

\* msg.GetNoteOn(&channel, &key, &velocity) && velocity > 0
captureNoteAccepts(msg) == GetNoteOn(msg) /\ NoteVelocity(msg) > 0

\* the values captureNote returns; n is the number of messages the
\* callback had been given when the select chose
ReturnNote(key, n) == [kind |-> "note", key |-> key, n |-> n]
ReturnTimeout(n) == [kind |-> "timeout", key |-> 0, n |-> n]
ReturnListenError == [kind |-> "listen error", key |-> 0, n |-> 0]

CapInit ==
    /\ RouterIdle
    /\ FnIdle
    /\ MainIdle
    /\ cpc = "ListenTo"
    /\ capListening = FALSE
    /\ noteChan = <<>>
    /\ timer = "unset"
    /\ heard = <<>>
    /\ ret = <<>>

\* stop, err := midi.ListenTo(inputPort, ...); if err != nil { return 0, ... }
CapListenTo(ok) ==
    /\ cpc = "ListenTo"
    /\ IF ok
       THEN /\ capListening' = TRUE
            /\ cpc' = "select"
            /\ ret' = ret
       ELSE /\ capListening' = FALSE
            /\ cpc' = "returned"
            /\ ret' = ReturnListenError
    /\ UNCHANGED <<routerVars, fnVars, mainVars, noteChan, timer, heard>>

\* the select evaluates time.After(30 * time.Second): the timer starts
CapStartTimer ==
    /\ cpc = "select"
    /\ timer = "unset"
    /\ timer' = "running"
    /\ UNCHANGED <<routerVars, fnVars, mainVars, cpc, capListening, noteChan,
                   heard, ret>>

\* 30 seconds have passed
CapTimerFires ==
    /\ timer = "running"
    /\ timer' = "fired"
    /\ UNCHANGED <<routerVars, fnVars, mainVars, cpc, capListening, noteChan,
                   heard, ret>>

\* the callback, on the transport's thread:
\* select { case noteChan <- key: default: }
CapCallback(msg) ==
    /\ capListening
    /\ Len(heard) < MaxHeard
    /\ heard' = Append(heard, [msg |-> msg, late |-> timer = "fired"])
    /\ noteChan' = IF captureNoteAccepts(msg) /\ Len(noteChan) < 1
                   THEN Append(noteChan, NoteKey(msg))
                   ELSE noteChan
    /\ UNCHANGED <<routerVars, fnVars, mainVars, cpc, capListening, timer, ret>>

\* case note := <-noteChan: return note, nil
CapReceiveNote ==
    /\ cpc = "select"
    /\ timer # "unset"
    /\ noteChan # <<>>
    /\ ret' = ReturnNote(Head(noteChan), Len(heard))
    /\ noteChan' = Tail(noteChan)
    /\ cpc' = "defer"
    /\ UNCHANGED <<routerVars, fnVars, mainVars, capListening, timer, heard>>

\* case <-time.After(30 * time.Second): return 0, timeout
CapTimeout ==
    /\ cpc = "select"
    /\ timer = "fired"
    /\ ret' = ReturnTimeout(Len(heard))
    /\ cpc' = "defer"
    /\ UNCHANGED <<routerVars, fnVars, mainVars, capListening, noteChan,
                   timer, heard>>

\* defer stop()
CapStop ==
    /\ cpc = "defer"
    /\ capListening' = FALSE
    /\ cpc' = "returned"
    /\ UNCHANGED <<routerVars, fnVars, mainVars, noteChan, timer, heard, ret>>

\* the steps of the goroutine that called captureNote
CapWaiter ==
    \/ \E ok \in BOOLEAN : CapListenTo(ok)
    \/ CapStartTimer
    \/ CapReceiveNote
    \/ CapTimeout
    \/ CapStop

CapNext ==
    \/ CapWaiter
    \/ CapTimerFires
    \/ \E msg \in CapMsgs : CapCallback(msg)

\* the goroutine is scheduled and the timer runs; the transport need not
\* deliver anything
CapSpec ==
    CapInit /\ [][CapNext]_vars /\ WF_vars(CapWaiter) /\ WF_vars(CapTimerFires)

---------------------------------------------------------------------------
(* Properties of captureNote, checked under CapSpec *)

\* a Note On (status 0x90-0x9F) whose velocity byte is not 0
NoteOnWithVelocity(msg) == Len(msg) = 3 /\ msg[1] \div 16 = 9 /\ msg[3] > 0

\* the positions in heard, up to n, of the Note Ons with velocity > 0
Accepted(n) == {i \in 1..n : NoteOnWithVelocity(heard[i].msg)}

\* the first of them
FirstAccepted(n) == CHOOSE i \in Accepted(n) : \A j \in Accepted(n) : i <= j

\* captureNote has returned the key of the first accepted note
ReturnedFirstNote ==
    /\ ret.kind = "note"
    /\ Accepted(Len(heard)) # {}
    /\ ret.key = NoteKey(heard[FirstAccepted(Len(heard))].msg)

\* an accepted note was delivered before the 30 seconds had passed
AcceptedInTime == \E i \in Accepted(Len(heard)) : ~heard[i].late

\* C21 as stated, for a captureNote that could start listening: it returns
\* the key of the first Note On with velocity > 0 delivered while it
\* listened, or a timeout error when no such note was delivered within the
\* wait, and has stopped listening.
C21_FirstNoteOrTimeout ==
    (cpc = "returned" /\ ret.kind # "listen error") =>
      /\ ~capListening
      /\ \/ ReturnedFirstNote
         \/ ret.kind = "timeout" /\ ~AcceptedInTime

\* what holds in every state of a captureNote
C21_Safe ==
    /\ Len(noteChan) <= 1
    /\ (capListening /\ Len(heard) < MaxHeard) =>
         ENABLED (\E msg \in CapMsgs : CapCallback(msg))
    /\ cpc \in {"defer", "returned"} =>
         /\ ret.kind \in {"note", "timeout", "listen error"}
         /\ ret.kind = "listen error" <=> timer = "unset"
         /\ ret.kind = "listen error" => heard = <<>>
         /\ ret.kind = "note" => ReturnedFirstNote
         /\ ret.kind = "timeout" => timer = "fired"
         /\ Accepted(ret.n) = {} => ret.kind # "note"
         /\ (Accepted(ret.n) # {} /\ ret.kind = "timeout") =>
              noteChan = <<NoteKey(heard[FirstAccepted(ret.n)].msg)>>
    /\ cpc = "returned" => ~capListening

\* C21, amended: captureNote returns; it returns a listen error without
\* having listened, or the key of the first Note On with velocity > 0
\* delivered while it listened, or a timeout error after the wait has
\* passed; it returns the timeout whenever no such note was delivered
\* before the select chose, and may return either when a note is in the
\* channel and the wait has passed; later notes are dropped by a callback
\* that is never blocked; listening has stopped when it returns.
C21_CaptureNote == []C21_Safe /\ <>(cpc = "returned")

\* two notes were played and a velocity-0 Note On came first: the second
\* message's key was returned and the third was dropped
C21_Witness ==
    /\ cpc = "returned"
    /\ heard = <<[msg |-> NoteOnMsg(1, 62, 0), late |-> FALSE],
                 [msg |-> NoteOnMsg(0, 64, 100), late |-> FALSE],
                 [msg |-> NoteOnMsg(0, 60, 80), late |-> FALSE]>>
    /\ ret = ReturnNote(64, 3)
    /\ noteChan = <<>>

====
